---- MODULE Spec2Model ----
(***************************************************************************)
(* Quiz security protocol of acemind-backend: session binding hash,        *)
(* submission validation, server-side grading, the Firestore session store *)
(* and the /api/generate-quiz and /api/submit-quiz handlers.               *)
(*                                                                         *)
(* Text is a sequence of one-character strings, so that template-literal   *)
(* formatting is modelled character by character.  A JavaScript value is a *)
(* record [t, h, items]: t is the typeof-like tag, h is twice the numeric  *)
(* value (so that 1.5 is h = 3), items are the elements of an array.       *)
(***************************************************************************)
EXTENDS Integers, Sequences, FiniteSets, Bags, TLC

VARIABLES now, db, idCount, issued, submitted, gen, sub, sweep, retry, pipe, call, ret

vars == <<now, db, idCount, issued, submitted, gen, sub, sweep, retry, pipe, call, ret>>

serverVars == <<now, db, idCount, issued, submitted, gen, sub, sweep, retry, pipe>>

(***************************************************************************)
(* JavaScript values                                                       *)
(***************************************************************************)
JSNull == [t |-> "null", h |-> 0, items |-> <<>>]

JSUndefined == [t |-> "undefined", h |-> 0, items |-> <<>>]

\* the number n
JSInt(n) == [t |-> "number", h |-> 2 * n, items |-> <<>>]

\* the number h2 / 2
JSHalf(h2) == [t |-> "number", h |-> h2, items |-> <<>>]

\* a non-numeric string of h2 characters (ToNumber gives NaN)
JSString(len) == [t |-> "string", h |-> len, items |-> <<>>]

JSArray(xs) == [t |-> "array", h |-> 0, items |-> xs]

\* Array.isArray(x)
IsArray(x) == x.t = "array"

\* x === y
StrictEquals(x, y) == x = y

\* x < 0 with the abstract relational comparison: NaN compares false,
\* null converts to 0
LessThanZero(x) == x.t = "number" /\ x.h < 0

\* x > 3
GreaterThanThree(x) == x.t = "number" /\ x.h > 6

\* Number.isInteger(x)
IsInteger(x) == x.t = "number" /\ x.h % 2 = 0

(***************************************************************************)
(* Template literals: `${x}` of an integer                                 *)
(***************************************************************************)
Digit(d) == <<"0", "1", "2", "3", "4", "5", "6", "7", "8", "9">>[d + 1]

RECURSIVE NatToString(_)
NatToString(n) ==
  IF n < 10 THEN <<Digit(n)>>
  ELSE NatToString(n \div 10) \o <<Digit(n % 10)>>

NumToString(n) == IF n < 0 THEN <<"-">> \o NatToString(0 - n) ELSE NatToString(n)

\* process.env.QUIZ_SECRET_KEY
SECRET_KEY == <<"K", "-", "9">>

\* crypto.createHash("sha256").update(data).digest("hex"), idealised as
\* collision free: the digest determines its preimage
Sha256(data) == <<"#">> \o data

generateQuizHashNoSeparator(quizId, startTime, timeLimit) ==
  Sha256(quizId \o NumToString(startTime) \o NumToString(timeLimit) \o SECRET_KEY)

generateQuizHash(quizId, startTime, timeLimit) ==
  Sha256(quizId \o <<"-">> \o NumToString(startTime) \o <<"-">>
         \o NumToString(timeLimit) \o <<"-">> \o SECRET_KEY)

verifyQuizHashSwapped(quizId, startTime, timeLimit, hash) ==
  generateQuizHash(quizId, timeLimit, startTime) = hash

verifyQuizHash(quizId, startTime, timeLimit, hash) ==
  LET expectedHash == generateQuizHash(quizId, startTime, timeLimit)
  IN  expectedHash = hash

(***************************************************************************)
(* Question records and the client view                                    *)
(***************************************************************************)
\* q.f, which is undefined when the record has no such property
Prop(q, f) == IF f \in DOMAIN q THEN q[f] ELSE "undefined"

sanitizeQuestionLeaky(q) ==
  [question |-> Prop(q, "question"), options |-> Prop(q, "options"),
   difficulty |-> Prop(q, "difficulty"), correctAnswer |-> Prop(q, "correctAnswer")]

\* the arrow function mapped over the questions
sanitizeQuestion(q) ==
  [question |-> Prop(q, "question"), options |-> Prop(q, "options"),
   difficulty |-> Prop(q, "difficulty")]

sanitizeQuestionsForClientRaw(questions) == questions

sanitizeQuestionsForClient(questions) ==
  [i \in 1..Len(questions) |-> sanitizeQuestion(questions[i])]

(***************************************************************************)
(* validateQuizSubmission                                                  *)
(***************************************************************************)
GRACE_SECONDS == 5

Err(msg) == [msg |-> msg, q |-> 0]

\* Math.floor((submitTime - startTime) / 1000)
ActualTimeTaken(submitTime, startTime) == (submitTime - startTime) \div 1000

\* userAnswers.length !== correctAnswers.length; a value without a length
\* property gives undefined, which differs from every number
LengthDiffers(userAnswers, n) ==
  CASE userAnswers.t = "array" -> Len(userAnswers.items) # n
    [] userAnswers.t = "string" -> userAnswers.h # n
    [] OTHER -> TRUE

\* answer !== null && (answer < 0 || answer > 3)
AnswerOutOfRange(answer) ==
  answer # JSNull /\ (LessThanZero(answer) \/ GreaterThanThree(answer))

\* userAnswers.forEach(...): one error per offending element, in order
AnswerErrors(items) ==
  LET bad == SelectSeq([i \in 1..Len(items) |-> i],
                       LAMBDA i : AnswerOutOfRange(items[i]))
  IN  [k \in 1..Len(bad) |->
         [msg |-> "Invalid answer value at question", q |-> bad[k]]]

\* the result of a call that ended in a TypeError: nothing is returned
Thrown == [threw |-> TRUE, isValid |-> FALSE, errors |-> <<>>, actualTimeTaken |-> 0]

validateQuizSubmission(p) ==
  LET e1 == IF ~verifyQuizHash(p.quizId, p.startTime, p.timeLimit, p.sessionHash)
              THEN <<Err("Invalid quiz session")>> ELSE <<>>
      actualTimeTaken == ActualTimeTaken(p.submitTime, p.startTime)
      maxAllowedTime == p.timeLimit + GRACE_SECONDS
      e2 == IF actualTimeTaken > maxAllowedTime
              THEN <<Err("Time limit exceeded")>> ELSE <<>>
      e3 == IF actualTimeTaken < 0
              THEN <<Err("Invalid submission time")>> ELSE <<>>
      e4 == IF ~IsArray(p.userAnswers)
              THEN <<Err("Invalid answer format")>> ELSE <<>>
      e5 == IF LengthDiffers(p.userAnswers, Len(p.correctAnswers))
              THEN <<Err("Answer count mismatch")>> ELSE <<>>
      errors == e1 \o e2 \o e3 \o e4 \o e5 \o AnswerErrors(p.userAnswers.items)
  IN  IF p.userAnswers.t \in {"null", "undefined"}
        THEN Thrown   \* reading .length of null or undefined
      ELSE IF ~IsArray(p.userAnswers)
        THEN Thrown   \* userAnswers.forEach is not a function
      ELSE [threw |-> FALSE, isValid |-> (Len(errors) = 0), errors |-> errors,
            actualTimeTaken |-> actualTimeTaken]

(***************************************************************************)
(* IEEE 754 double arithmetic on the values calculateScore computes.       *)
(* A non-negative double is [q, k]: the 53-bit significand as four limbs   *)
(* q[1..4] (q[1] holds the bits above 2^51, the others 17 bits each) and   *)
(* the binary exponent k, with value                                       *)
(*   (q[1] * 2^51 + q[2] * 2^34 + q[3] * 2^17 + q[4]) / 2^k.               *)
(***************************************************************************)
MANTISSA_BITS == 53

LIMB == 2^17

RECURSIVE BitLength(_)
BitLength(n) == IF n = 0 THEN 0 ELSE 1 + BitLength(n \div 2)

DoubleZero == [q |-> <<0, 0, 0, 0>>, k |-> MANTISSA_BITS - 1]

\* the limbs plus `add` units in the last place, carries propagated
AddToLimbs(q, add) ==
  LET s4 == q[4] + add
      s3 == q[3] + (s4 \div LIMB)
      s2 == q[2] + (s3 \div LIMB)
  IN  <<q[1] + (s2 \div LIMB), s2 % LIMB, s3 % LIMB, s4 % LIMB>>

\* round to nearest, ties to even, after the low `drop` bits of the last
\* limb; `sticky` tells whether anything non-zero lies below the limbs
RoundLimbs(q, drop, half, sticky) ==
  LET unit == 2^drop
      low == q[4] % unit
      odd == (IF drop < 17 THEN q[4] \div unit ELSE q[3]) % 2 = 1
      up == \/ low > half
            \/ low = half /\ (sticky \/ odd)
  IN  AddToLimbs(q, (IF up THEN unit ELSE 0) - low)

\* a / b in double arithmetic, for integers 0 <= a <= b, 0 < b:
\* long division, seventeen quotient bits at a time
DivDouble(a, b) ==
  IF a = 0 THEN DoubleZero
  ELSE LET e == CHOOSE e \in 0..BitLength(b) :
                  a * 2^e >= b /\ (e = 0 \/ a * 2^(e - 1) < b)
           n1 == a * 2^(e + 1)
           n2 == (n1 % b) * LIMB
           n3 == (n2 % b) * LIMB
           n4 == (n3 % b) * LIMB
           r == n4 % b
           q == <<n1 \div b, n2 \div b, n3 \div b, n4 \div b>>
           up == 2 * r > b \/ (2 * r = b /\ q[4] % 2 = 1)
       IN  [q |-> AddToLimbs(q, IF up THEN 1 ELSE 0), k |-> MANTISSA_BITS - 1 + e]

\* x * m in double arithmetic, for a small integer m
MulDouble(x, m) ==
  LET p4 == x.q[4] * m
      p3 == (x.q[3] * m) + (p4 \div LIMB)
      p2 == (x.q[2] * m) + (p3 \div LIMB)
      p1 == (x.q[1] * m) + (p2 \div LIMB)
      p == <<p1, p2 % LIMB, p3 % LIMB, p4 % LIMB>>
      drop == BitLength(p1) - 2
  IN  IF drop <= 0 THEN [q |-> p, k |-> x.k]
      ELSE [q |-> RoundLimbs(p, drop, 2^(drop - 1), FALSE), k |-> x.k]

\* Math.round(x): the integer nearest to x, halves going up; the bits of
\* the integer part and the first fraction bit all lie in the first limb
MathRound(x) ==
  LET top == x.k - (MANTISSA_BITS - 2)
  IN  (x.q[1] \div 2^top) + ((x.q[1] \div 2^(top - 1)) % 2)

(***************************************************************************)
(* calculateScore                                                          *)
(***************************************************************************)
\* userAnswers[index] for a zero-based index
ElementAt(userAnswers, index) ==
  IF IsArray(userAnswers) /\ index + 1 <= Len(userAnswers.items)
    THEN userAnswers.items[index + 1]
    ELSE JSUndefined

\* the forEach body: is position index answered correctly
AnsweredCorrectlyLoose(userAnswers, correctAnswers, index) ==
  \/ StrictEquals(ElementAt(userAnswers, index), JSInt(correctAnswers[index + 1]))
  \/ ElementAt(userAnswers, index) \in {JSNull, JSUndefined}

AnsweredCorrectly(userAnswers, correctAnswers, index) ==
  StrictEquals(ElementAt(userAnswers, index), JSInt(correctAnswers[index + 1]))

\* correctAnswers.forEach(...): one entry per incorrect position, in order
Mistakes(userAnswers, correctAnswers) ==
  LET wrong == SelectSeq([i \in 1..Len(correctAnswers) |-> i - 1],
                         LAMBDA index : ~AnsweredCorrectly(userAnswers, correctAnswers, index))
  IN  [k \in 1..Len(wrong) |->
         [questionIndex |-> wrong[k],
          userAnswer |-> ElementAt(userAnswers, wrong[k]),
          correctAnswer |-> correctAnswers[wrong[k] + 1]]]

calculateScore(userAnswers, correctAnswers) ==
  LET total == Len(correctAnswers)
      mistakes == Mistakes(userAnswers, correctAnswers)
      correctCount == total - Len(mistakes)
      score == MathRound(MulDouble(DivDouble(correctCount, total), 100))
  IN  [totalQuestions |-> total,
       correctAnswers |-> correctCount,
       wrongAnswers |-> total - correctCount,
       score |-> score,
       mistakes |-> mistakes]

(***************************************************************************)
(* The session store (quizSessionManager): the quizSessions collection is  *)
(* a function from document id to document.                                *)
(***************************************************************************)
\* docs after doc(sessionId).set(data)
SetDoc(docs, sessionId, data) ==
  [id \in DOMAIN docs \cup {sessionId} |-> IF id = sessionId THEN data ELSE docs[id]]

deleteQuizSessionKeeps(docs, sessionId) == docs

\* docs after doc(sessionId).delete()
deleteQuizSession(docs, sessionId) ==
  [id \in DOMAIN docs \ {sessionId} |-> docs[id]]

\* Math.ceil((timeLimit + 300) / 60), the expiryMinutes /api/generate-quiz passes
ExpiryMinutesNoGrace(timeLimit) == timeLimit \div 60

ExpiryMinutes(timeLimit) == (timeLimit + 300 + 59) \div 60

\* the document storeQuizSession writes at time t
SessionDoc(sessionId, sessionData, expiryMinutes, t) ==
  [questions |-> sessionData.questions,
   startTime |-> sessionData.startTime,
   timeLimit |-> sessionData.timeLimit,
   sessionHash |-> sessionData.sessionHash,
   sessionId |-> sessionId,
   createdAt |-> t,
   expiresAt |-> t + expiryMinutes * 60 * 1000]

ExpiredOnReadNever(session, t) == FALSE

\* getQuizSession: session.expiresAt && Date.now() > session.expiresAt
ExpiredOnRead(session, t) == session.expiresAt # 0 /\ t > session.expiresAt

\* cleanupExpiredSessions: where("expiresAt", "<=", now)
ExpiredForSweep(session, t) == session.expiresAt <= t

\* generateSessionId: a SHA-256 digest over fresh random bytes, idealised
\* as a text no earlier call has returned
generateSessionId(count) == <<"s">> \o NatToString(count + 1)

(***************************************************************************)
(* The server: clock, store, and the handlers of /api/generate-quiz and    *)
(* /api/submit-quiz, each suspended where the code awaits the store.       *)
(* gen and sub hold the handlers in flight, ret the response sent by the   *)
(* last step (NoRet when it sent none), issued the generate responses the  *)
(* client holds, and submitted the sessions for which results have been    *)
(* sent.                                                                   *)
(***************************************************************************)
\* sessions created in a run
MaxSessions == 1

\* submit handlers in flight together
MaxSubmit == 2

\* the instants at which the server clock is observed
Instants == {1000, 7001, 361001}

DEFAULT_TIME_LIMIT == 600

\* req.body.timeLimit; 0 stands for every falsy value, also an absent one
TimeLimitInputs == {0, 1}

Options1 == <<"o1", "o2", "o3", "o4">>

\* what GenerateQuizQuestions can return
Quizzes ==
  { <<[question |-> "q1", options |-> Options1, correctAnswer |-> 0,
       explanation |-> "e1", verified |-> TRUE, difficulty |-> "beginner"],
      [question |-> "q2", options |-> Options1, correctAnswer |-> 3,
       explanation |-> "e2", verified |-> TRUE, difficulty |-> "beginner"]>> }

\* req.body.userAnswers of a request that has all its fields
UserAnswerInputs ==
  { JSArray(<<JSInt(0), JSNull>>), JSArray(<<JSInt(0)>>), JSString(2) }

FakeHash == <<"f", "a", "k", "e">>

\* a session id the server never issued
UnknownSession == [sessionId |-> <<"s", "0">>, sessionHash |-> FakeHash]

NoCall == [op |-> "none"]

NoRet == [done |-> FALSE]

Returned(v) == [done |-> TRUE, value |-> v]

Response(status, body) == [status |-> status, body |-> body]

\* the handlers in flight are a bag: two requests can be equal
Put(bag, h) == bag (+) SetToBag({h})

Take(bag, h) == bag (-) SetToBag({h})

ServerInit ==
  /\ now = 1000
  /\ db = <<>>
  /\ idCount = 0
  /\ issued = {}
  /\ submitted = {}
  /\ gen = {}
  /\ sub = EmptyBag
  /\ sweep = [pc |-> "idle", docs |-> {}]
  /\ retry = [pc |-> "idle"]
  /\ pipe = [pc |-> "idle"]

\* the clock moves on
Tick ==
  /\ \E t \in Instants : t > now /\ now' = t
  /\ ret' = NoRet
  /\ UNCHANGED <<db, idCount, issued, submitted, gen, sub, sweep, call, retry, pipe>>

\* /api/generate-quiz up to "await storeQuizSession": the questions have
\* come back, the session is created and its document handed to the store
GenerateQuiz ==
  /\ idCount < MaxSessions
  /\ \E questions \in Quizzes, input \in TimeLimitInputs :
       LET sessionId == generateSessionId(idCount)
           startTime == now
           timeLimit == IF input = 0 THEN DEFAULT_TIME_LIMIT ELSE input
           sessionHash == generateQuizHash(sessionId, startTime, timeLimit)
           sessionData == [questions |-> questions, startTime |-> startTime,
                           timeLimit |-> timeLimit, sessionHash |-> sessionHash]
       IN  gen' = gen \cup {SessionDoc(sessionId, sessionData, ExpiryMinutes(timeLimit), now)}
  /\ idCount' = idCount + 1
  /\ ret' = NoRet
  /\ UNCHANGED <<now, db, issued, submitted, sub, sweep, call, retry, pipe>>

\* /api/generate-quiz refuses the request (400), or GenerateQuizQuestions
\* throws or returns no questions (500): nothing is stored.  Requests arrive
\* as long as a session can still be created
GenerateFails ==
  /\ idCount < MaxSessions
  /\ \E status \in {400, 500} :
       ret' = [done |-> TRUE, op |-> "generate",
               response |-> Response(status, [success |-> FALSE])]
  /\ UNCHANGED <<now, db, idCount, issued, submitted, gen, sub, sweep, call, retry, pipe>>

\* the store has written the document: the sanitized questions are sent
GenerateStored(doc) ==
  LET
      body == [success |-> TRUE,
               sessionId |-> doc.sessionId,
               sessionHash |-> doc.sessionHash,
               startTime |-> doc.startTime,
               timeLimit |-> doc.timeLimit,
               questions |-> sanitizeQuestionsForClient(doc.questions)]
  IN  /\ db' = SetDoc(db, doc.sessionId, doc)
      /\ gen' = gen \ {doc}
      /\ issued' = issued \cup {body}
      /\ ret' = [done |-> TRUE, op |-> "generate", response |-> Response(200, body)]
      /\ UNCHANGED <<now, idCount, submitted, sub, sweep, call, retry, pipe>>

\* question.options[mistake.userAnswer], or "Not answered"
AnswerText(question, userAnswer) ==
  IF userAnswer = JSNull THEN "Not answered"
  ELSE IF IsInteger(userAnswer) /\ userAnswer.h \in {0, 2, 4, 6}
    THEN question.options[(userAnswer.h \div 2) + 1]
  ELSE "undefined"

\* the results object /api/submit-quiz builds from the score
Results(session, scoreDetails, validation) ==
  [score |-> scoreDetails.score,
   totalQuestions |-> scoreDetails.totalQuestions,
   correctAnswers |-> scoreDetails.correctAnswers,
   wrongAnswers |-> scoreDetails.wrongAnswers,
   mistakes |-> scoreDetails.mistakes,
   timeTaken |-> validation.actualTimeTaken,
   timeLimit |-> session.timeLimit,
   detailedMistakes |->
     [k \in 1..Len(scoreDetails.mistakes) |->
        LET mistake == scoreDetails.mistakes[k]
            question == session.questions[mistake.questionIndex + 1]
        IN  [questionIndex |-> mistake.questionIndex,
             question |-> question.question,
             userAnswer |-> AnswerText(question, mistake.userAnswer),
             correctAnswer |-> question.options[mistake.correctAnswer + 1],
             explanation |-> question.explanation,
             options |-> question.options]]]

\* A submit handler in flight. The body of a request is fixed when it is
\* sent but the handler reads sessionHash, userAnswers and submitTime only
\* after getQuizSession has answered, so the model draws them there; late
\* records whether results had already been sent for the session when the
\* request arrived, overdue whether it arrived more than the time limit and
\* the grace period after the start of the session, by the server clock.
Request(sessionId) ==
  [pc |-> "get",
   sessionId |-> sessionId,
   sessionHash |-> <<>>,
   late |-> sessionId \in submitted,
   overdue |-> \E b \in issued :
                 /\ b.sessionId = sessionId
                 /\ now - b.startTime > (b.timeLimit + GRACE_SECONDS) * 1000,
   validated |-> FALSE,
   results |-> <<>>]

\* the response to request h, as ret records it
Answer(h, response) ==
  [done |-> TRUE, op |-> "submit",
   sessionId |-> h.sessionId, sessionHash |-> h.sessionHash,
   late |-> h.late, validated |-> h.validated,
   response |-> response]

NotFound == Response(404, [success |-> FALSE, message |-> "Quiz session not found or expired"])

\* the answer to a request that lacks sessionId, sessionHash, userAnswers
\* or submitTime: nothing of the request is looked at any further
MissingFields ==
  Answer([sessionId |-> <<>>, sessionHash |-> <<>>, late |-> FALSE, validated |-> FALSE],
         Response(400, [success |-> FALSE, message |-> "Missing required fields"]))

\* /api/submit-quiz up to "await getQuizSession": a request without one of
\* the required fields is refused.  Requests arrive as long as fewer than
\* MaxSubmit handlers are in flight
SubmitQuiz ==
  \/ /\ BagCardinality(sub) < MaxSubmit
     /\ ret' = MissingFields
     /\ UNCHANGED <<now, db, idCount, issued, submitted, gen, sub, sweep, call, retry, pipe>>
  \/ /\ BagCardinality(sub) < MaxSubmit
     /\ \E binding \in issued \cup {UnknownSession} :
          sub' = Put(sub, Request(binding.sessionId))
     /\ ret' = NoRet
     /\ UNCHANGED <<now, db, idCount, issued, submitted, gen, sweep, call, retry, pipe>>

\* the hashes a client can send for a session: the one it was issued, if
\* any, and one made up without the secret
ClientHashes(sessionId) ==
  {b.sessionHash : b \in {i \in issued : i.sessionId = sessionId}} \cup {FakeHash}

\* getQuizSession answers and the handler runs on to its next await
StoreAfterRejectionDeleted(store, sessionId) == deleteQuizSession(store, sessionId)

\* the 400 answer returns before calculateScore and before deleteQuizSession:
\* the store is what it was
StoreAfterRejection(store, sessionId) == store

SubmitGet(req) ==
  /\ req.pc = "get"
  /\ IF req.sessionId \notin DOMAIN db
       THEN /\ sub' = Take(sub, req)
            /\ ret' = Answer(req, NotFound)
            /\ db' = db
     ELSE IF ExpiredOnRead(db[req.sessionId], now)
       THEN /\ sub' = Put(Take(sub, req), [req EXCEPT !.pc = "expired"])
            /\ ret' = NoRet
            /\ db' = db
     ELSE
       \E sessionHash \in ClientHashes(req.sessionId),
          userAnswers \in UserAnswerInputs,
          submitTime \in {db[req.sessionId].startTime, now} :
         LET session == db[req.sessionId]
             h == [req EXCEPT !.sessionHash = sessionHash]
             correctAnswers == [i \in 1..Len(session.questions) |->
                                  session.questions[i].correctAnswer]
             validation == validateQuizSubmission(
                             [quizId |-> h.sessionId,
                              startTime |-> session.startTime,
                              submitTime |-> submitTime,
                              timeLimit |-> session.timeLimit,
                              sessionHash |-> sessionHash,
                              userAnswers |-> userAnswers,
                              correctAnswers |-> correctAnswers])
             checked == [h EXCEPT !.validated = TRUE]
         IN  IF validation.threw
               THEN /\ sub' = Take(sub, req)
                    /\ ret' = Answer(h, Response(500, [success |-> FALSE,
                                                       message |-> "Failed to submit quiz"]))
                    /\ db' = db
             ELSE IF ~validation.isValid
               THEN /\ sub' = Take(sub, req)
                    /\ ret' = Answer(checked,
                                     Response(400, [success |-> FALSE,
                                                    message |-> "Invalid quiz submission",
                                                    errors |-> validation.errors]))
                    /\ db' = StoreAfterRejection(db, req.sessionId)
             ELSE /\ sub' = Put(Take(sub, req),
                               [checked EXCEPT
                                  !.pc = "delete",
                                  !.results = Results(session,
                                                calculateScore(userAnswers, correctAnswers),
                                                validation)])
                  /\ ret' = NoRet
                  /\ db' = db
  /\ UNCHANGED <<now, idCount, issued, submitted, gen, sweep, call, retry, pipe>>

\* getQuizSession has deleted the expired session: "not found"
SubmitExpired(req) ==
  /\ req.pc = "expired"
  /\ db' = deleteQuizSession(db, req.sessionId)
  /\ sub' = Take(sub, req)
  /\ ret' = Answer(req, NotFound)
  /\ UNCHANGED <<now, idCount, issued, submitted, gen, sweep, call, retry, pipe>>

\* deleteQuizSession after grading has completed: the results are sent
SubmitDelete(req) ==
  /\ req.pc = "delete"
  /\ db' = deleteQuizSession(db, req.sessionId)
  /\ sub' = Take(sub, req)
  /\ submitted' = submitted \cup {req.sessionId}
  /\ ret' = Answer(req, Response(200, [success |-> TRUE, results |-> req.results]))
  /\ UNCHANGED <<now, idCount, issued, gen, sweep, call, retry, pipe>>

\* cleanupExpiredSessions up to "await Promise.all": the query has answered.
\* With an empty snapshot nothing is left for the sweep to do.
SweepQuery ==
  LET snapshot == {id \in DOMAIN db : ExpiredForSweep(db[id], now)}
  IN  /\ sweep.pc = "idle"
      /\ sweep' = IF snapshot = {} THEN sweep ELSE [pc |-> "deleting", docs |-> snapshot]
      /\ ret' = NoRet
      /\ UNCHANGED <<now, db, idCount, issued, submitted, gen, sub, call, retry, pipe>>

\* the deletes of the sweep have completed
SweepDelete ==
  /\ sweep.pc = "deleting"
  /\ db' = [id \in DOMAIN db \ sweep.docs |-> db[id]]
  /\ sweep' = [pc |-> "idle", docs |-> {}]
  /\ ret' = NoRet
  /\ UNCHANGED <<now, idCount, issued, submitted, gen, sub, call, retry, pipe>>

Init ==
  /\ ServerInit
  /\ call = NoCall
  /\ ret = NoRet

Next ==
  \/ Tick
  \/ GenerateQuiz
  \/ GenerateFails
  \/ \E doc \in gen : GenerateStored(doc)
  \/ SubmitQuiz
  \/ \E req \in BagToSet(sub) : SubmitGet(req)
  \/ \E req \in BagToSet(sub) : SubmitExpired(req)
  \/ \E req \in BagToSet(sub) : SubmitDelete(req)
  \/ SweepQuery
  \/ SweepDelete

Spec == Init /\ [][Next]_vars

(***************************************************************************)
(* Calls of the pure functions: call holds the arguments, ret the result.  *)
(***************************************************************************)
\* the set of sequences over S of length lo..hi
SeqsOf(S, lo, hi) == UNION {[1..k -> S] : k \in lo..hi}

(***************************************************************************)
(* verifyQuizHash on a binding and an altered copy of it                   *)
(***************************************************************************)
QuizIds == {<<"a">>, <<"a", "1">>, <<"a", "-", "1">>, <<"1">>}

StartTimes == {0, 1, 12}

TimeLimits == {-1, 1, 2, 12, 600, 601}

\* what a client can present as a hash without knowing SECRET_KEY: junk,
\* or a digest it computed itself over the three public fields
ForgedHashes(quizId, startTime, timeLimit) ==
  { <<"f", "a", "k", "e">>,
    Sha256(quizId \o <<"-">> \o NumToString(startTime) \o <<"-">>
           \o NumToString(timeLimit)),
    Sha256(quizId \o <<"-">> \o NumToString(startTime) \o <<"-">>
           \o NumToString(timeLimit) \o <<"-">>) }

InitHash ==
  /\ ServerInit
  /\ ret = NoRet
  /\ \E q \in QuizIds, s \in StartTimes, t \in TimeLimits,
        q2 \in QuizIds, s2 \in StartTimes, t2 \in TimeLimits :
       \E h \in {generateQuizHash(q, s, t)} \cup ForgedHashes(q2, s2, t2) :
         call = [op |-> "verifyQuizHash",
                 issued |-> [quizId |-> q, startTime |-> s, timeLimit |-> t,
                             hash |-> generateQuizHash(q, s, t)],
                 quizId |-> q2, startTime |-> s2, timeLimit |-> t2, hash |-> h]

CallVerifyQuizHash ==
  /\ call.op = "verifyQuizHash"
  /\ ~ret.done
  /\ ret' = Returned(verifyQuizHash(call.quizId, call.startTime, call.timeLimit, call.hash))
  /\ UNCHANGED <<call, serverVars>>

NextHash == CallVerifyQuizHash

SpecHash == InitHash /\ [][NextHash]_vars

(***************************************************************************)
(* sanitizeQuestionsForClient on lists of question records                 *)
(***************************************************************************)
MaxSanitized == 3

\* records as stage 5 returns them, as GenerateQuizQuestions returns them,
\* and with the fields of the earlier stages still attached
QuestionRecords ==
  { [question |-> "q1", options |-> Options1, correctAnswer |-> 0,
     explanation |-> "e1", verified |-> TRUE],
    [question |-> "q2", options |-> Options1, correctAnswer |-> 3,
     explanation |-> "e2", verified |-> TRUE, difficulty |-> "expert"],
    [question |-> "q3", options |-> Options1, correctAnswer |-> 1,
     explanation |-> "e3", correctAnswerText |-> "o2", difficulty |-> "beginner"],
    [question |-> "q4", options |-> Options1, difficulty |-> "beginner"] }

InitSanitize ==
  /\ ServerInit
  /\ ret = NoRet
  /\ \E qs \in SeqsOf(QuestionRecords, 0, MaxSanitized) :
       call = [op |-> "sanitizeQuestionsForClient", questions |-> qs]

CallSanitize ==
  /\ call.op = "sanitizeQuestionsForClient"
  /\ ~ret.done
  /\ ret' = Returned(sanitizeQuestionsForClient(call.questions))
  /\ UNCHANGED <<call, serverVars>>

NextSanitize == CallSanitize

SpecSanitize == InitSanitize /\ [][NextSanitize]_vars

(***************************************************************************)
(* validateQuizSubmission on submissions around the limits of each check   *)
(***************************************************************************)
MaxAnswers == 2

\* elements a JSON body, or a direct caller, can put into userAnswers
AnswerValues ==
  {JSNull, JSUndefined, JSInt(-1), JSInt(0), JSInt(3), JSInt(4), JSHalf(3),
   JSString(3)}

\* values of userAnswers that are not arrays
NonArrays == {JSString(2), JSInt(5)}

ValidateStartTime == 1000

\* submit times before the start, at the start, and around the end of the
\* grace period of a session with the given time limit
SubmitTimes(timeLimit) ==
  {ValidateStartTime - 1, ValidateStartTime}
    \cup {ValidateStartTime + (timeLimit + GRACE_SECONDS) * 1000 + d :
            d \in {-1, 0, 1, 999, 1000}}

InitValidate ==
  /\ ServerInit
  /\ ret = NoRet
  /\ \E tl \in {1, 600}, forged \in BOOLEAN,
        ca \in SeqsOf(0..3, 1, MaxAnswers),
        ua \in {JSArray(xs) : xs \in SeqsOf(AnswerValues, 0, MaxAnswers)} \cup NonArrays :
       \E st \in SubmitTimes(tl) :
         call = [op |-> "validateQuizSubmission",
                 quizId |-> <<"a", "1">>,
                 startTime |-> ValidateStartTime,
                 submitTime |-> st,
                 timeLimit |-> tl,
                 sessionHash |-> IF forged THEN <<"f", "a", "k", "e">>
                                 ELSE generateQuizHash(<<"a", "1">>, ValidateStartTime, tl),
                 userAnswers |-> ua,
                 correctAnswers |-> ca]

CallValidate ==
  /\ call.op = "validateQuizSubmission"
  /\ ~ret.done
  /\ ret' = Returned(validateQuizSubmission(call))
  /\ UNCHANGED <<call, serverVars>>

NextValidate == CallValidate

SpecValidate == InitValidate /\ [][NextValidate]_vars

(***************************************************************************)
(* calculateScore on short answer lists of every shape, and on lists of    *)
(* up to the largest question count with a given number of right answers   *)
(***************************************************************************)
\* questionCount > 50 is refused by /api/generate-quiz
MAX_QUESTION_COUNT == 50

\* n answers of which the first c are right and the others are skipped
AnswersWithCorrect(c, n) ==
  JSArray([i \in 1..n |-> IF i <= c THEN JSInt(0) ELSE JSNull])

InitScore ==
  /\ ServerInit
  /\ ret = NoRet
  /\ \/ \E ca \in SeqsOf(0..3, 1, MaxAnswers),
           xs \in SeqsOf({JSNull, JSUndefined, JSInt(0), JSInt(1), JSInt(3), JSHalf(1)},
                         0, MaxAnswers) :
          call = [op |-> "calculateScore", userAnswers |-> JSArray(xs),
                  correctAnswers |-> ca]
     \/ \E n \in 1..MAX_QUESTION_COUNT : \E c \in 0..n :
          call = [op |-> "calculateScore", userAnswers |-> AnswersWithCorrect(c, n),
                  correctAnswers |-> [i \in 1..n |-> 0]]

CallScore ==
  /\ call.op = "calculateScore"
  /\ ~ret.done
  /\ ret' = Returned(calculateScore(call.userAnswers, call.correctAnswers))
  /\ UNCHANGED <<call, serverVars>>

NextScore == CallScore

SpecScore == InitScore /\ [][NextScore]_vars

(***************************************************************************)
(* retryWithBackoff (retryUtils.mjs).  retry is one invocation: where it   *)
(* stands, its locals attempt and lastError, and what it has done so far:  *)
(* calls of the operation, the errors they raised, the delays slept.       *)
(***************************************************************************)
\* RATE_LIMIT_CONFIG
DEFAULT_MAX_RETRIES == 3

BASE_DELAY == 2000

MAX_DELAY == 30000

\* the largest maxRetries argument drawn
MaxRetriesArg == 6

\* an error: status, the words of message (<<>> when it has none), code
Error(status, message, code) == [status |-> status, message |-> message, code |-> code]

\* lastError before any attempt has failed
Undefined == Error(0, <<>>, "undefined")

\* what the operation can raise
Errors ==
  { Error(429, <<"Too", "Many", "Requests">>, ""),
    Error(0, <<"exceeded", "quota">>, ""),
    Error(0, <<>>, "ETIMEDOUT"),
    Error(400, <<"Bad", "Request">>, ""),
    Error(0, <<"Unexpected", "token">>, "") }

\* what the operation can return
ApiResults == {"r1", "r2"}

\* error.message?.includes(word)
Includes(message, word) == \E k \in 1..Len(message) : message[k] = word

\* isRetryableError
IsRetryableError(error) ==
  \/ error.status = 429
  \/ error.status = 503
  \/ error.status = 500
  \/ Includes(error.message, "429")
  \/ Includes(error.message, "503")
  \/ Includes(error.message, "500")
  \/ Includes(error.message, "quota")
  \/ Includes(error.message, "rate limit")
  \/ Includes(error.message, "service unavailable")
  \/ Includes(error.message, "fetch failed")
  \/ Includes(error.message, "ECONNRESET")
  \/ Includes(error.message, "ETIMEDOUT")
  \/ error.code = "ECONNRESET"
  \/ error.code = "ETIMEDOUT"
  \/ error.code = "ENOTFOUND"

LoopContinuesInclusive(attempt, maxRetries) == attempt <= maxRetries

\* the condition of the for loop
LoopContinues(attempt, maxRetries) == attempt < maxRetries

\* attempt < maxRetries - 1
AttemptsRemain(attempt, maxRetries) == attempt < maxRetries - 1

BackoffDelayUncapped(attempt) == BASE_DELAY * 2^attempt

\* Math.min(baseDelay * Math.pow(2, attempt), maxDelay)
BackoffDelay(attempt) ==
  IF BASE_DELAY * 2^attempt < MAX_DELAY THEN BASE_DELAY * 2^attempt ELSE MAX_DELAY

\* the top of the for loop with the given value of attempt: the operation
\* is called, or the loop is left and lastError thrown
LoopTop(r, attempt) ==
  IF LoopContinues(attempt, r.maxRetries)
    THEN [r EXCEPT !.pc = "calling", !.attempt = attempt, !.calls = r.calls + 1]
    ELSE [r EXCEPT !.pc = "threw", !.attempt = attempt, !.raised = r.lastError]

CatchIgnoringClass(r, error) ==
  LET caught == [r EXCEPT !.lastError = error, !.errors = Append(r.errors, error)]
  IN  IF AttemptsRemain(r.attempt, r.maxRetries)
        THEN [caught EXCEPT !.pc = "sleeping",
                            !.slept = Append(r.slept, BackoffDelay(r.attempt))]
        ELSE [caught EXCEPT !.pc = "threw", !.raised = error]

\* the catch block: remember the error, then back off and go on, or throw it
Catch(r, error) ==
  LET caught == [r EXCEPT !.lastError = error, !.errors = Append(r.errors, error)]
  IN  IF IsRetryableError(error) /\ AttemptsRemain(r.attempt, r.maxRetries)
        THEN [caught EXCEPT !.pc = "sleeping",
                            !.slept = Append(r.slept, BackoffDelay(r.attempt))]
        ELSE [caught EXCEPT !.pc = "threw", !.raised = error]

\* retryWithBackoff is invoked, with or without its third argument; every
\* invocation starts from fresh locals
RetryInvoke ==
  /\ retry.pc \in {"idle", "returned", "threw"}
  /\ \E given \in BOOLEAN :
       \E maxRetries \in IF given THEN 0..MaxRetriesArg ELSE {DEFAULT_MAX_RETRIES} :
         retry' = LoopTop([pc |-> "start", given |-> given, maxRetries |-> maxRetries,
                           attempt |-> 0, lastError |-> Undefined, calls |-> 0,
                           errors |-> <<>>, slept |-> <<>>, result |-> "",
                           raised |-> Undefined], 0)
  /\ UNCHANGED <<now, db, idCount, issued, submitted, gen, sub, sweep, pipe, call, ret>>

\* the awaited operation resolves: its value is returned
ApiCallReturns ==
  /\ retry.pc = "calling"
  /\ \E v \in ApiResults : retry' = [retry EXCEPT !.pc = "returned", !.result = v]
  /\ UNCHANGED <<now, db, idCount, issued, submitted, gen, sub, sweep, pipe, call, ret>>

\* the awaited operation rejects
ApiCallThrows ==
  /\ retry.pc = "calling"
  /\ \E error \in Errors : retry' = Catch(retry, error)
  /\ UNCHANGED <<now, db, idCount, issued, submitted, gen, sub, sweep, pipe, call, ret>>

\* the sleep is over: continue with attempt + 1
SleepOver ==
  /\ retry.pc = "sleeping"
  /\ retry' = LoopTop(retry, retry.attempt + 1)
  /\ UNCHANGED <<now, db, idCount, issued, submitted, gen, sub, sweep, pipe, call, ret>>

InitRetry ==
  /\ ServerInit
  /\ call = NoCall
  /\ ret = NoRet

NextRetry ==
  \/ RetryInvoke
  \/ ApiCallReturns
  \/ ApiCallThrows
  \/ SleepOver

SpecRetry == InitRetry /\ [][NextRetry]_vars

(***************************************************************************)
(* The multi-stage quiz generation (generate_quiz_ai.mjs).  A text is a    *)
(* sequence of characters.  What the gateway hands back to a stage, after  *)
(* retryWithBackoff and JSON.parse, is an outcome: the call or the parse   *)
(* threw, or a value that is an array of items or something else.          *)
(***************************************************************************)
Upper == <<"A", "B", "C", "D", "E", "Q">>

Lower == <<"a", "b", "c", "d", "e", "q">>

\* String.prototype.toLowerCase on one character
ToLowerCase(c) ==
  IF \E k \in 1..Len(Upper) : Upper[k] = c
    THEN Lower[CHOOSE k \in 1..Len(Upper) : Upper[k] = c]
    ELSE c

\* the characters matched by \s
IsSpace(c) == c \in {" ", "\t", "\n"}

RECURSIVE TrimStart(_)
TrimStart(text) ==
  IF text # <<>> /\ IsSpace(text[1]) THEN TrimStart(Tail(text)) ELSE text

RECURSIVE TrimEnd(_)
TrimEnd(text) ==
  IF text # <<>> /\ IsSpace(text[Len(text)])
    THEN TrimEnd(SubSeq(text, 1, Len(text) - 1)) ELSE text

\* String.prototype.trim
Trim(text) == TrimEnd(TrimStart(text))

\* replace(/\s+/g, " ")
RECURSIVE CollapseSpaces(_)
CollapseSpaces(text) ==
  IF text = <<>> THEN <<>>
  ELSE IF IsSpace(text[1]) THEN <<" ">> \o CollapseSpaces(TrimStart(text))
  ELSE <<text[1]>> \o CollapseSpaces(Tail(text))

\* String(text).toLowerCase().replace(/\s+/g, " ").trim()
normalizeText(text) ==
  Trim(CollapseSpaces([k \in 1..Len(text) |-> ToLowerCase(text[k])]))

\* outcomes of a gateway call and the parse of its answer
CallThrows == [threw |-> TRUE, array |-> FALSE, items |-> <<>>]

NotAnArray == [threw |-> FALSE, array |-> FALSE, items |-> <<>>]

ArrayOf(items) == [threw |-> FALSE, array |-> TRUE, items |-> items]

\* what a stage function does: it throws, or returns a value
StageThrows == [threw |-> TRUE, value |-> <<>>]

StageReturns(value) == [threw |-> FALSE, value |-> value]

\* generateQuestionsOnly, from the outcome of its gateway call on
GenerateQuestionsOnly(outcome, questionCount) ==
  IF outcome.threw \/ ~outcome.array THEN StageThrows
  ELSE IF Len(outcome.items) < questionCount THEN StageThrows
  ELSE LET trimmedQuestions == [k \in 1..questionCount |-> Trim(outcome.items[k])]
           uniqueQuestions == {normalizeText(trimmedQuestions[k]) : k \in 1..questionCount}
       IN  IF Cardinality(uniqueQuestions) # Len(trimmedQuestions)
             THEN StageThrows
             ELSE StageReturns(trimmedQuestions)

\* generateOptionsForAllQuestions, from the outcome of its gateway call on
GenerateOptionsForAllQuestions(outcome, questions) ==
  IF outcome.threw \/ ~outcome.array THEN StageThrows
  ELSE IF Len(outcome.items) < Len(questions) THEN StageThrows
  ELSE LET optionsToProcess == SubSeq(outcome.items, 1, Len(questions))
       IN  IF \E k \in 1..Len(optionsToProcess) :
                \/ Len(optionsToProcess[k].options) # 4
                \/ optionsToProcess[k].correctAnswerText = <<>>
             THEN StageThrows
             ELSE StageReturns(
                    [k \in 1..Len(optionsToProcess) |->
                      [options |-> [o \in 1..4 |-> Trim(optionsToProcess[k].options[o])],
                       correctAnswerText |-> Trim(optionsToProcess[k].correctAnswerText)]])

\* generateExplanationsForAllQuestions, from the outcome of its call on
GenerateExplanationsForAllQuestions(outcome, questionsWithOptions) ==
  IF outcome.threw \/ ~outcome.array THEN StageThrows
  ELSE IF Len(outcome.items) < Len(questionsWithOptions) THEN StageThrows
  ELSE StageReturns([k \in 1..Len(questionsWithOptions) |-> Trim(outcome.items[k])])

\* generateSingleExplanation, from the outcome of its gateway call on
GenerateSingleExplanation(outcome) ==
  IF outcome.threw \/ outcome.explanation = <<>> THEN StageThrows
  ELSE StageReturns(Trim(outcome.explanation))

\* `The correct answer is "${correctAnswerText}".`
DefaultExplanation(q) == <<"The correct answer is \"">> \o q.correctAnswerText \o <<"\".">>

WithExplanationAsGiven(q, explanation) ==
  [question |-> q.question, options |-> q.options,
   correctAnswerText |-> q.correctAnswerText, explanation |-> explanation]

\* allExplanations[i] || the default text
WithExplanation(q, explanation) ==
  [question |-> q.question, options |-> q.options,
   correctAnswerText |-> q.correctAnswerText,
   explanation |-> IF explanation = <<>> THEN DefaultExplanation(q) ELSE explanation]

BATCH_SIZE == 5

\* batches[batchIndex], batchIndex counted from 0
Batch(questionsWithAnswers, batchIndex) ==
  SubSeq(questionsWithAnswers, batchIndex * BATCH_SIZE + 1,
         IF (batchIndex + 1) * BATCH_SIZE < Len(questionsWithAnswers)
           THEN (batchIndex + 1) * BATCH_SIZE ELSE Len(questionsWithAnswers))

\* batches.length
BatchCount(questionsWithAnswers) == (Len(questionsWithAnswers) + BATCH_SIZE - 1) \div BATCH_SIZE

CorrectedBatchTrusting(outcome, batch) ==
  IF ~outcome.array THEN batch ELSE outcome.items

\* one round of the batch loop: what is pushed on allCorrectedQuestions
CorrectedBatch(outcome, batch) ==
  IF ~outcome.array \/ Len(outcome.items) # Len(batch) THEN batch ELSE outcome.items

KeepAll(allCorrectedQuestions) == allCorrectedQuestions

\* the final duplicate check of factCheckAndCorrectQuestions: the first
\* question of every normalised text is kept
RECURSIVE RemoveDuplicates(_)
RemoveDuplicates(allCorrectedQuestions) ==
  IF allCorrectedQuestions = <<>> THEN <<>>
  ELSE LET front == SubSeq(allCorrectedQuestions, 1, Len(allCorrectedQuestions) - 1)
           q == allCorrectedQuestions[Len(allCorrectedQuestions)]
       IN  IF \E k \in 1..Len(front) :
                normalizeText(front[k].question) = normalizeText(q.question)
             THEN RemoveDuplicates(front)
             ELSE Append(RemoveDuplicates(front), q)

\* options.findIndex(...) of verifyAndReconcileQuestion, -1 when absent
CorrectIndex(q) ==
  LET hits == {k \in 1..Len(q.options) :
                 normalizeText(q.options[k]) = normalizeText(q.correctAnswerText)}
  IN  IF hits = {} THEN -1
      ELSE (CHOOSE k \in hits : \A h \in hits : k <= h) - 1

VerifiesLoose(q) ==
  Cardinality({normalizeText(q.options[k]) : k \in 1..Len(q.options)}) = 4

\* verifyAndReconcileQuestion does not throw
Verifies(q) ==
  /\ CorrectIndex(q) # -1
  /\ Cardinality({normalizeText(q.options[k]) : k \in 1..Len(q.options)}) = 4

\* verifyAndReconcileQuestion, with the difficulty left aside
verifyAndReconcileQuestion(q) ==
  [question |-> q.question, options |-> q.options, correctAnswer |-> CorrectIndex(q),
   explanation |-> q.explanation, verified |-> TRUE]

(***************************************************************************)
(* The two expiry tests of the session store on stored documents, at       *)
(* instants around their expiresAt                                         *)
(***************************************************************************)
\* time limits in seconds, around whole minutes
ExpiryTimeLimits == {1, 59, 60, 61, 600, 3000}

\* the instants a document is looked at: when it was written, and around
\* its expiresAt
ExpiryInstants(doc) ==
  {doc.createdAt, doc.expiresAt - 1, doc.expiresAt, doc.expiresAt + 1}

InitExpiry ==
  /\ ServerInit
  /\ ret = NoRet
  /\ \E createdAt \in Instants, timeLimit \in ExpiryTimeLimits :
       LET session == SessionDoc(generateSessionId(0),
                                 [questions |-> <<>>, startTime |-> createdAt,
                                  timeLimit |-> timeLimit,
                                  sessionHash |-> generateQuizHash(generateSessionId(0),
                                                                   createdAt, timeLimit)],
                                 ExpiryMinutes(timeLimit), createdAt)
       IN  \E t \in ExpiryInstants(session) :
             call = [op |-> "expired", session |-> session, now |-> t]

\* getQuizSession and cleanupExpiredSessions look at the document at the
\* same instant
CallExpired ==
  /\ call.op = "expired"
  /\ ~ret.done
  /\ ret' = Returned([read |-> ExpiredOnRead(call.session, call.now),
                      sweep |-> ExpiredForSweep(call.session, call.now)])
  /\ UNCHANGED <<call, serverVars>>

NextExpiry == CallExpired

SpecExpiry == InitExpiry /\ [][NextExpiry]_vars

(***************************************************************************)
(* generateQuestionsOnly on gateway answers of every length around the     *)
(* number of questions asked for                                           *)
(***************************************************************************)
\* the largest questionCount drawn for a call of stage 1 alone
MaxStage1Count == 2

\* two questions, each in two spellings that normalise to the same text
Stage1Texts ==
  { <<"Q", " ", "1">>, <<" ", "q", "\t", " ", "1">>, <<"Q", " ", "2">>, <<"q", " ", "2", " ">> }

InitStage1 ==
  /\ ServerInit
  /\ ret = NoRet
  /\ \E questionCount \in 1..MaxStage1Count :
       \E outcome \in {CallThrows, NotAnArray}
                        \cup {ArrayOf(items) : items \in SeqsOf(Stage1Texts, 0, MaxStage1Count + 1)} :
         call = [op |-> "generateQuestionsOnly", outcome |-> outcome,
                 questionCount |-> questionCount]

CallStage1 ==
  /\ call.op = "generateQuestionsOnly"
  /\ ~ret.done
  /\ ret' = Returned(GenerateQuestionsOnly(call.outcome, call.questionCount))
  /\ UNCHANGED <<call, serverVars>>

NextStage1 == CallStage1

SpecStage1 == InitStage1 /\ [][NextStage1]_vars

(***************************************************************************)
(* One run of generateWithMultiStage.  pipe holds the point the run has    *)
(* reached, its locals, and what it has done: the gateway calls awaiting   *)
(* an answer, the attempts made at every stage, the stages left behind.    *)
(* The call a stage makes through retryWithBackoff is one exchange here:   *)
(* it is issued, and a later step brings its outcome.                      *)
(***************************************************************************)
\* the largest questionCount drawn
MaxQuestions == 6

\* const maxRetries = 2 of generateWithMultiStage
STAGE_MAX_RETRIES == 2

\* the wait before a stage is tried again, in ms
STAGE_RETRY_DELAY == 2000

\* the k-th question the model writes, and the same question in another
\* case and spacing
QuestionText(k) == <<"Q", " ">> \o NatToString(k)

QuestionVariant(k) == <<"q", "\t", " ">> \o NatToString(k)

\* what the gateway can answer to stage 1
Stage1Outcomes(n) ==
  { CallThrows, NotAnArray,
    ArrayOf([k \in 1..(n - 1) |-> QuestionText(k)]),
    ArrayOf([k \in 1..n |-> QuestionText(k)]),
    ArrayOf([k \in 1..n |-> <<" ">> \o QuestionText(k) \o <<"\n">>]),
    ArrayOf([k \in 1..(n + 1) |-> QuestionText(k)]),
    ArrayOf([k \in 1..n |-> IF k = n /\ n > 1 THEN QuestionVariant(1) ELSE QuestionText(k)]) }

\* the four options of a well-formed question, and the text of option k
FourOptions == << <<"A">>, <<"B">>, <<"C">>, <<"D">> >>

\* the ways the options of one question can come back
OptionKinds == {"good", "padded", "caseAnswer", "absentAnswer", "sameOptions", "three", "noAnswer"}

\* the option set of the given kind for question k
OptionsData(k, kind) ==
  LET right == FourOptions[(k % 4) + 1]
  IN  CASE kind = "good" -> [options |-> FourOptions, correctAnswerText |-> right]
        [] kind = "padded" ->
             [options |-> [o \in 1..4 |-> <<" ">> \o FourOptions[o]],
              correctAnswerText |-> right \o <<" ">>]
        [] kind = "caseAnswer" ->
             [options |-> FourOptions, correctAnswerText |-> <<ToLowerCase(right[1])>>]
        [] kind = "absentAnswer" -> [options |-> FourOptions, correctAnswerText |-> <<"E">>]
        [] kind = "sameOptions" ->
             [options |-> << <<"A">>, <<"a">>, <<"C">>, <<"D">> >>, correctAnswerText |-> <<"D">>]
        [] kind = "three" ->
             [options |-> SubSeq(FourOptions, 1, 3), correctAnswerText |-> <<"A">>]
        [] kind = "noAnswer" -> [options |-> FourOptions, correctAnswerText |-> <<>>]

\* what the gateway can answer to stage 2: well-formed option sets for
\* n - 1, n or n + 1 questions, or n sets of which one is of another kind
Stage2Outcomes(n) ==
  { CallThrows, NotAnArray }
    \cup { ArrayOf([k \in 1..m |-> OptionsData(k, "good")]) : m \in (n - 1)..(n + 1) }
    \cup { ArrayOf([k \in 1..n |-> OptionsData(k, IF k = j THEN kind ELSE "good")]) :
             j \in {1, n}, kind \in OptionKinds }

\* the explanation of question k in a batch answer, and in a single answer
BatchExplanation(k) == <<"x">> \o NatToString(k)

SingleExplanation(k) == <<"y">> \o NatToString(k)

\* what the gateway can answer to stage 3
Stage3Outcomes(n) ==
  { CallThrows, NotAnArray,
    ArrayOf([k \in 1..(n - 1) |-> BatchExplanation(k)]),
    ArrayOf([k \in 1..(n + 1) |-> BatchExplanation(k)]),
    ArrayOf([k \in 1..n |-> BatchExplanation(k) \o <<" ">>]),
    ArrayOf([k \in 1..n |-> IF k = 1 THEN <<" ">> ELSE BatchExplanation(k)]) }

\* outcomes of the call of generateSingleExplanation and the parse of its
\* answer: it threw, or an object whose explanation is a text, empty when
\* the property is missing
SingleThrows == [threw |-> TRUE, explanation |-> <<>>]

SingleObject(explanation) == [threw |-> FALSE, explanation |-> explanation]

\* what the gateway can answer for question k, counted from 1; the first
\* question shows the answers that are no explanation
SingleOutcomes(k) ==
  { SingleObject(SingleExplanation(k) \o <<"\n">>) }
    \cup IF k = 1 THEN { SingleThrows, SingleObject(<<>>), SingleObject(<<" ">>) } ELSE {}

\* the ways the fact checker can rewrite a question
RewriteKinds == {"same", "duplicate", "fiveOptions", "rightAnswer", "wrongAnswer"}

\* question q of the batch, rewritten
Rewritten(q, kind, first) ==
  CASE kind = "same" -> q
    [] kind = "duplicate" -> [q EXCEPT !.question = <<" ">> \o ToLowerCase(first.question[1]) \o Tail(first.question)]
    [] kind = "fiveOptions" ->
         [q EXCEPT !.options = << <<"A">>, <<"a">>, <<"B">>, <<"C">>, <<"D">> >>,
                   !.correctAnswerText = <<"D">>, !.explanation = <<"z">>]
    [] kind = "rightAnswer" -> [q EXCEPT !.correctAnswerText = q.options[1]]
    [] kind = "wrongAnswer" -> [q EXCEPT !.correctAnswerText = <<"E">>]

\* what the gateway can answer to the fact check of a batch: the batch
\* with its last question rewritten, or rewritten questions for a batch of
\* another size
Stage4Outcomes(batch, first) ==
  { CallThrows, NotAnArray,
    ArrayOf([k \in 1..(Len(batch) - 1) |-> Rewritten(batch[k], "rightAnswer", first)]),
    ArrayOf([k \in 1..(Len(batch) + 1) |-> Rewritten(batch[1], "rightAnswer", first)]) }
    \cup { ArrayOf([k \in 1..Len(batch) |->
                     IF k = Len(batch) THEN Rewritten(batch[k], kind, first) ELSE batch[k]]) :
             kind \in RewriteKinds }

\* the locals of a run that starts
FreshRun(questionCount) ==
  [pc |-> "start", stage |-> 0, questionCount |-> questionCount,
   questionsRetryCount |-> 0, optionsRetryCount |-> 0,
   questions |-> <<>>, questionsWithOptions |-> <<>>, allExplanations |-> <<>>,
   questionsWithAnswers |-> <<>>, batchIndex |-> 0, allCorrectedQuestions |-> <<>>,
   factCheckedQuestions |-> <<>>, verifiedQuestions |-> <<>>,
   inflight |-> 0, attempts |-> [k \in 1..5 |-> 0], finished |-> {},
   fellBack |-> {}, factChecks |-> <<>>, waited |-> <<>>, failedStage |-> 0]

ResolvedNever(p) == p

\* an awaited gateway call has come back
Resolved(p) == [p EXCEPT !.inflight = @ - 1]

\* a gateway call of the stage is issued and awaited
Await(p, stage, pc) == [p EXCEPT !.pc = pc, !.stage = stage, !.inflight = @ + 1]

\* the function of stage 1 to 4 is entered: it issues its gateway call
Enter(p, stage) == Await([p EXCEPT !.attempts[stage] = @ + 1], stage, "call")

\* a stage is left behind
Done(p, stage) == [p EXCEPT !.finished = @ \cup {stage}]

\* the error of the stage leaves generateWithMultiStage
Fail(p, stage) == [p EXCEPT !.pc = "failed", !.failedStage = stage]

\* stage 5 on the fact-checked questions, and the return
Verify(p, factCheckedQuestions) ==
  LET checked == [p EXCEPT !.factCheckedQuestions = factCheckedQuestions,
                           !.stage = 5, !.attempts[5] = 1]
  IN  IF \A k \in 1..Len(factCheckedQuestions) : Verifies(factCheckedQuestions[k])
        THEN [Done(checked, 5) EXCEPT
                !.pc = "returned",
                !.verifiedQuestions =
                   [k \in 1..Len(factCheckedQuestions) |->
                      verifyAndReconcileQuestion(factCheckedQuestions[k])]]
        ELSE Fail(checked, 5)

\* the explanations are combined with the questions and stage 4 begins
Combine(p, allExplanations) ==
  Enter([Done(p, 3) EXCEPT
           !.allExplanations = allExplanations,
           !.questionsWithAnswers =
              [k \in 1..Len(p.questionsWithOptions) |->
                 WithExplanation(p.questionsWithOptions[k], allExplanations[k])]], 4)

\* /api/generate-quiz calls GenerateQuizQuestions for questionCount
\* questions; the requests are followed up to the first quiz that is stored
PipelineStart ==
  /\ pipe.pc \in {"idle", "refused"}
  /\ \E questionCount \in 1..MaxQuestions :
       pipe' = Enter(FreshRun(questionCount), 1)
  /\ ret' = NoRet
  /\ UNCHANGED <<now, db, idCount, issued, submitted, gen, sub, sweep, retry, call>>

\* the call of stage 1 is over: the questions are taken, or the stage is
\* tried again after a wait, or its error is thrown
Stage1Answer ==
  /\ pipe.pc = "call" /\ pipe.stage = 1
  /\ \E outcome \in Stage1Outcomes(pipe.questionCount) :
       LET p == Resolved(pipe)
           r == GenerateQuestionsOnly(outcome, pipe.questionCount)
           caught == [p EXCEPT !.questionsRetryCount = @ + 1]
       IN  pipe' =
             IF ~r.threw THEN Enter(Done([p EXCEPT !.questions = r.value], 1), 2)
             ELSE IF caught.questionsRetryCount > STAGE_MAX_RETRIES THEN Fail(caught, 1)
             ELSE [caught EXCEPT !.pc = "wait", !.waited = Append(@, STAGE_RETRY_DELAY)]
  /\ UNCHANGED <<now, db, idCount, issued, submitted, gen, sub, sweep, retry, call, ret>>

\* the call of stage 2 is over
Stage2Answer ==
  /\ pipe.pc = "call" /\ pipe.stage = 2
  /\ \E outcome \in Stage2Outcomes(pipe.questionCount) :
       LET p == Resolved(pipe)
           r == GenerateOptionsForAllQuestions(outcome, pipe.questions)
           caught == [p EXCEPT !.optionsRetryCount = @ + 1]
       IN  pipe' =
             IF ~r.threw
               THEN Enter(Done([p EXCEPT !.questionsWithOptions =
                                  [k \in 1..Len(p.questions) |->
                                     [question |-> p.questions[k],
                                      options |-> r.value[k].options,
                                      correctAnswerText |-> r.value[k].correctAnswerText]]],
                               2), 3)
             ELSE IF caught.optionsRetryCount > STAGE_MAX_RETRIES THEN Fail(caught, 2)
             ELSE [caught EXCEPT !.pc = "wait", !.waited = Append(@, STAGE_RETRY_DELAY)]
  /\ UNCHANGED <<now, db, idCount, issued, submitted, gen, sub, sweep, retry, call, ret>>

\* the wait of 2 s is over: the stage is entered again
StageRetry ==
  /\ pipe.pc = "wait"
  /\ pipe' = Enter(pipe, pipe.stage)
  /\ UNCHANGED <<now, db, idCount, issued, submitted, gen, sub, sweep, retry, call, ret>>

\* the call of stage 3 is over: the explanations are taken, or they are
\* asked for one by one
Stage3Answer ==
  /\ pipe.pc = "call" /\ pipe.stage = 3
  /\ \E outcome \in Stage3Outcomes(pipe.questionCount) :
       LET p == Resolved(pipe)
           r == GenerateExplanationsForAllQuestions(outcome, pipe.questionsWithOptions)
       IN  pipe' =
             IF ~r.threw THEN Combine(p, r.value)
             ELSE Await([p EXCEPT !.allExplanations = <<>>, !.fellBack = @ \cup {3}],
                        3, "single")
  /\ UNCHANGED <<now, db, idCount, issued, submitted, gen, sub, sweep, retry, call, ret>>

\* the call for the explanation of one question is over: it is pushed, or
\* the default text when the call threw, and the next question is asked for
SingleAnswer ==
  /\ pipe.pc = "single"
  /\ \E outcome \in SingleOutcomes(Len(pipe.allExplanations) + 1) :
       LET p == Resolved(pipe)
           q == pipe.questionsWithOptions[Len(pipe.allExplanations) + 1]
           r == GenerateSingleExplanation(outcome)
           allExplanations ==
             Append(pipe.allExplanations,
                    IF r.threw THEN DefaultExplanation(q) ELSE r.value)
       IN  pipe' =
             IF Len(allExplanations) < Len(pipe.questionsWithOptions)
               THEN Await([p EXCEPT !.allExplanations = allExplanations], 3, "single")
               ELSE Combine(p, allExplanations)
  /\ UNCHANGED <<now, db, idCount, issued, submitted, gen, sub, sweep, retry, call, ret>>

\* the fact check of a batch is over: the next batch is sent, or, after the
\* last one, duplicates are removed, stage 5 runs and the run ends; when the
\* call threw, the questions go to stage 5 as they were before stage 4
Stage4Answer ==
  /\ pipe.pc = "call" /\ pipe.stage = 4
  /\ LET batch == Batch(pipe.questionsWithAnswers, pipe.batchIndex)
     IN  \E outcome \in Stage4Outcomes(batch, pipe.questionsWithAnswers[1]) :
           LET p == Resolved(pipe)
               pushed == [p EXCEPT !.allCorrectedQuestions = @ \o CorrectedBatch(outcome, batch),
                                   !.batchIndex = @ + 1,
                                   !.factChecks =
                                      Append(@, IF outcome.array /\ Len(outcome.items) = Len(batch)
                                                  THEN [matched |-> TRUE, items |-> outcome.items]
                                                  ELSE [matched |-> FALSE, items |-> <<>>]),
                                   !.fellBack = IF outcome.array /\ Len(outcome.items) = Len(batch)
                                                  THEN @ ELSE @ \cup {4}]
           IN  pipe' =
                 IF outcome.threw
                   THEN Verify(Done([p EXCEPT !.fellBack = @ \cup {4}], 4), p.questionsWithAnswers)
                 ELSE IF pushed.batchIndex < BatchCount(p.questionsWithAnswers)
                   THEN Await(pushed, 4, "call")
                 ELSE Verify(Done(pushed, 4), RemoveDuplicates(pushed.allCorrectedQuestions))
  /\ UNCHANGED <<now, db, idCount, issued, submitted, gen, sub, sweep, retry, call, ret>>

\* the difficulty generateWithMultiStage adds to every record it returns
WithDifficulty(q, difficulty) ==
  [question |-> q.question, options |-> q.options, correctAnswer |-> q.correctAnswer,
   explanation |-> q.explanation, verified |-> q.verified, difficulty |-> difficulty]

\* /api/generate-quiz after "await GenerateQuizQuestions": the error of a
\* failed run is answered with a failure and nothing is stored; the records
\* of a run that returned are stored as a session and sent sanitized
GenerateAnswered ==
  /\ pipe.pc \in {"returned", "failed"}
  /\ IF pipe.pc = "failed" \/ pipe.verifiedQuestions = <<>>
       THEN /\ \E status \in IF pipe.failedStage = 5 THEN {500} ELSE {500, 429} :
                 ret' = [done |-> TRUE, op |-> "generate",
                         response |-> Response(status, [success |-> FALSE])]
            /\ pipe' = [pipe EXCEPT !.pc = "refused"]
            /\ UNCHANGED <<db, idCount, issued>>
       ELSE \E input \in TimeLimitInputs :
              LET sessionId == generateSessionId(idCount)
                  timeLimit == IF input = 0 THEN DEFAULT_TIME_LIMIT ELSE input
                  questions == [k \in 1..Len(pipe.verifiedQuestions) |->
                                  WithDifficulty(pipe.verifiedQuestions[k], "beginner")]
                  sessionData == [questions |-> questions, startTime |-> now,
                                  timeLimit |-> timeLimit,
                                  sessionHash |-> generateQuizHash(sessionId, now, timeLimit)]
                  doc == SessionDoc(sessionId, sessionData, ExpiryMinutes(timeLimit), now)
                  body == [success |-> TRUE,
                           sessionId |-> doc.sessionId,
                           sessionHash |-> doc.sessionHash,
                           startTime |-> doc.startTime,
                           timeLimit |-> doc.timeLimit,
                           questions |-> sanitizeQuestionsForClient(doc.questions)]
              IN  /\ db' = SetDoc(db, sessionId, doc)
                  /\ idCount' = idCount + 1
                  /\ issued' = issued \cup {body}
                  /\ ret' = [done |-> TRUE, op |-> "generate", response |-> Response(200, body)]
                  /\ pipe' = [pipe EXCEPT !.pc = "stored"]
  /\ UNCHANGED <<now, submitted, gen, sub, sweep, retry, call>>

InitPipeline ==
  /\ ServerInit
  /\ call = NoCall
  /\ ret = NoRet

NextPipeline ==
  \/ PipelineStart
  \/ Stage1Answer
  \/ Stage2Answer
  \/ StageRetry
  \/ Stage3Answer
  \/ SingleAnswer
  \/ Stage4Answer
  \/ GenerateAnswered

SpecPipeline == InitPipeline /\ [][NextPipeline]_vars

(***************************************************************************)
(* The gateway calls of one run of generateWithMultiStage: every stage     *)
(* function reaches the gateway through retryWithBackoff, and the run      *)
(* decides from the outcome of the function which function is called next  *)
(***************************************************************************)
MaxCallQuestions == 6

\* retryWithBackoff(apiCall, callName) as the stage functions invoke it,
\* without its third argument
StageInvocation ==
  LoopTop([pc |-> "start", given |-> FALSE, maxRetries |-> DEFAULT_MAX_RETRIES,
           attempt |-> 0, lastError |-> Undefined, calls |-> 0,
           errors |-> <<>>, slept |-> <<>>, result |-> "",
           raised |-> Undefined], 0)

StageRetriesExhaustedLate(count) == count > STAGE_MAX_RETRIES + 1

\* questionsRetryCount > maxRetries, optionsRetryCount > maxRetries
StageRetriesExhausted(count) == count > STAGE_MAX_RETRIES

\* the run enters a stage: its first function call has no call behind it
EnterStage(p, stage) ==
  [p EXCEPT !.pc = "call", !.stage = stage, !.index = 0, !.tries = 0, !.calls = 0]

\* where the run stands once the stage function called last is over; ok
\* tells whether the function returned (its answer parsed and passed its
\* tests) or threw
AfterStageFunction(p, ok) ==
  IF p.stage \in {1, 2}
    THEN IF ok THEN EnterStage(p, p.stage + 1)
         ELSE IF StageRetriesExhausted(p.tries + 1)
           THEN [p EXCEPT !.pc = "failed", !.tries = @ + 1]
         ELSE [p EXCEPT !.pc = "wait", !.tries = @ + 1]
  ELSE IF p.stage = 3
    THEN IF p.index = 0
           THEN IF ok THEN EnterStage(p, 4) ELSE [p EXCEPT !.index = 1]
         ELSE IF p.index < p.questionCount
           THEN [p EXCEPT !.index = @ + 1]
         ELSE EnterStage(p, 4)
  ELSE IF p.index + 1 < BatchCount([k \in 1..p.questionCount |-> k])
    THEN [p EXCEPT !.index = @ + 1]
  ELSE [p EXCEPT !.pc = "verify"]

\* generateWithMultiStage is called for questionCount questions
CallsStart ==
  /\ pipe.pc \in {"idle", "succeeded", "failed"}
  /\ \E questionCount \in 1..MaxCallQuestions :
       pipe' = EnterStage([pc |-> "call", stage |-> 1, index |-> 0, tries |-> 0,
                           calls |-> 0, questionCount |-> questionCount], 1)
  /\ retry' = StageInvocation
  /\ UNCHANGED <<now, db, idCount, issued, submitted, gen, sub, sweep, call, ret>>

\* retryWithBackoff has returned or thrown and the stage function is over:
\* the next function is called, or the stage waits, or the run fails
StageFunctionOver ==
  /\ pipe.pc = "call"
  /\ retry.pc \in {"returned", "threw"}
  /\ \E ok \in IF retry.pc = "returned" THEN BOOLEAN ELSE {FALSE} :
       LET after == AfterStageFunction([pipe EXCEPT !.calls = @ + retry.calls], ok)
       IN  /\ pipe' = after
           /\ retry' = IF after.pc = "call" THEN StageInvocation ELSE [pc |-> "idle"]
  /\ UNCHANGED <<now, db, idCount, issued, submitted, gen, sub, sweep, call, ret>>

\* the wait of 2 s is over: the stage function is called again
StageWaitOver ==
  /\ pipe.pc = "wait"
  /\ pipe' = [pipe EXCEPT !.pc = "call"]
  /\ retry' = StageInvocation
  /\ UNCHANGED <<now, db, idCount, issued, submitted, gen, sub, sweep, call, ret>>

\* stage 5 has no gateway call: the records are returned, or the run throws
VerifyOver ==
  /\ pipe.pc = "verify"
  /\ \E pc \in {"succeeded", "failed"} : pipe' = [pipe EXCEPT !.pc = pc]
  /\ UNCHANGED <<now, db, idCount, issued, submitted, gen, sub, sweep, retry, call, ret>>

InitCalls ==
  /\ ServerInit
  /\ call = NoCall
  /\ ret = NoRet

NextCalls ==
  \/ CallsStart
  \/ ApiCallReturns
  \/ ApiCallThrows
  \/ SleepOver
  \/ StageFunctionOver
  \/ StageWaitOver
  \/ VerifyOver

\* every gateway call returns or fails, every timer fires, and the code
\* between two awaits runs
SpecCalls ==
  /\ InitCalls /\ [][NextCalls]_vars
  /\ WF_vars(ApiCallReturns \/ ApiCallThrows)
  /\ WF_vars(SleepOver)
  /\ WF_vars(StageFunctionOver)
  /\ WF_vars(StageWaitOver)
  /\ WF_vars(VerifyOver)

(***************************************************************************)
(* Claims                                                                  *)
(***************************************************************************)

AnswerFields == {"correctAnswer", "correctAnswerIndex", "explanation"}

\* the body of a response holds a correct answer or an explanation
CarriesAnswers(body) ==
  \/ DOMAIN body \cap AnswerFields # {}
  \/ "results" \in DOMAIN body
  \/ /\ "questions" \in DOMAIN body
     /\ \E i \in 1..Len(body.questions) : DOMAIN body.questions[i] \cap AnswerFields # {}

\* C2: no generate response and no response to a rejected submission holds
\* a correct answer or an explanation: the only response that does is the
\* 200 answer to a submission that has passed validation.
C2_NoAnswerLeak ==
  /\ \A b \in issued : ~CarriesAnswers(b)
  /\ (ret.done /\ CarriesAnswers(ret.response.body))
       => ret.op = "submit" /\ ret.validated /\ ret.response.status = 200

\* a submission for a stored session has been rejected by validation
C2_Witness ==
  /\ ret.done /\ ret.op = "submit" /\ ret.validated
  /\ ret.response.status = 400
  /\ ret.sessionId \in DOMAIN db
  /\ \E b \in issued : b.sessionId = ret.sessionId /\ Len(b.questions) > 0

\* C11: a submission that reaches the server more than timeLimit + 5
\* seconds after the stored start of its session, by the server clock, is
\* never graded, whatever submitTime it carries.
C11_ServerClockEnforced ==
  \A req \in BagToSet(sub) : req.overdue => req.pc # "delete"

C3_SanitizeStripsAnswers ==
  (call.op = "sanitizeQuestionsForClient" /\ ret.done) =>
    /\ Len(ret.value) = Len(call.questions)
    /\ \A i \in 1..Len(call.questions) :
         /\ DOMAIN ret.value[i] = {"question", "options", "difficulty"}
         /\ ret.value[i].question = call.questions[i].question
         /\ ret.value[i].options = call.questions[i].options
         /\ "difficulty" \in DOMAIN call.questions[i] =>
              ret.value[i].difficulty = call.questions[i].difficulty

C3_Witness ==
  /\ call.op = "sanitizeQuestionsForClient"
  /\ ret.done
  /\ Len(call.questions) = 2
  /\ call.questions[1].question # call.questions[2].question
  /\ \A i \in 1..2 : {"correctAnswer", "explanation"} \subseteq DOMAIN call.questions[i]

\* C4: with h = generateQuizHash(sessionId, startTime, timeLimit),
\* verifyQuizHash returns true only when it is called with that very
\* sessionId, startTime, timeLimit and hash: altering any one or more of
\* them makes it return false.
C4_HashIntegrity ==
  (call.op = "verifyQuizHash" /\ ret.done /\ ret.value) =>
    /\ call.quizId = call.issued.quizId
    /\ call.startTime = call.issued.startTime
    /\ call.timeLimit = call.issued.timeLimit
    /\ call.hash = call.issued.hash

\* the scenario of the specification: only the time limit is altered, from
\* 600 to 601, and the issued hash is presented
C4_Witness ==
  /\ call.op = "verifyQuizHash"
  /\ ret.done
  /\ ~ret.value
  /\ call.hash = call.issued.hash
  /\ call.quizId = call.issued.quizId
  /\ call.startTime = call.issued.startTime
  /\ call.issued.timeLimit = 600
  /\ call.timeLimit = 601

\* the submission ret answers carried the hash issued for its session
PresentedIssuedHash ==
  \E b \in issued : b.sessionId = ret.sessionId /\ b.sessionHash = ret.sessionHash

\* C5: the hash a generate response carries is generateQuizHash of the
\* binding it carries and verifies against it, and a submission that
\* presents it is never rejected with "Invalid quiz session".
C5_UnalteredBindingAccepted ==
  /\ \A b \in issued :
       /\ b.sessionHash = generateQuizHash(b.sessionId, b.startTime, b.timeLimit)
       /\ verifyQuizHash(b.sessionId, b.startTime, b.timeLimit, b.sessionHash)
  /\ (ret.done /\ ret.op = "submit" /\ ret.validated /\ PresentedIssuedHash
        /\ ret.response.status = 400)
       => \A k \in 1..Len(ret.response.body.errors) :
            ret.response.body.errors[k].msg # "Invalid quiz session"

\* a submission with the issued hash has been rejected for another reason
C5_Witness ==
  /\ ret.done /\ ret.op = "submit" /\ ret.validated /\ PresentedIssuedHash
  /\ ret.response.status = 400
  /\ Len(ret.response.body.errors) > 0

\* the messages of a validation result
ErrorMessages(result) == {result.errors[i].msg : i \in 1..Len(result.errors)}

\* C6: validateQuizSubmission reports "Time limit exceeded" whenever
\* submitTime - startTime exceeds (timeLimit + 5) * 1000 ms, already at one
\* millisecond more, and does not report it at exactly that difference.
C6_TimeBound ==
  (call.op = "validateQuizSubmission" /\ ret.done /\ ~ret.value.threw) =>
    LET elapsed == call.submitTime - call.startTime
        limit == (call.timeLimit + 5) * 1000
    IN  /\ elapsed > limit => "Time limit exceeded" \in ErrorMessages(ret.value)
        /\ elapsed = limit => "Time limit exceeded" \notin ErrorMessages(ret.value)

\* C7: validateQuizSubmission never raises and never stops at the first
\* failure: whatever the submission, also one whose userAnswers is not an
\* array, it returns a result, and when checks are violated the result has
\* isValid = FALSE and one error for each violated check.
C7_AllErrorsCollected ==
  (call.op = "validateQuizSubmission" /\ ret.done) =>
    LET r == ret.value
        taken == (call.submitTime - call.startTime) \div 1000
        n == Len(call.correctAnswers)
        items == call.userAnswers.items
    IN  /\ ~r.threw
        /\ call.sessionHash # generateQuizHash(call.quizId, call.startTime, call.timeLimit)
             => "Invalid quiz session" \in ErrorMessages(r)
        /\ taken > call.timeLimit + 5 => "Time limit exceeded" \in ErrorMessages(r)
        /\ taken < 0 => "Invalid submission time" \in ErrorMessages(r)
        /\ ~IsArray(call.userAnswers) => "Invalid answer format" \in ErrorMessages(r)
        /\ (IsArray(call.userAnswers) /\ Len(items) # n)
             => "Answer count mismatch" \in ErrorMessages(r)
        /\ \A i \in 1..Len(items) :
             (items[i].t = "number" /\ (items[i].h < 0 \/ items[i].h > 6))
               => [msg |-> "Invalid answer value at question", q |-> i]
                    \in {r.errors[k] : k \in 1..Len(r.errors)}
        /\ r.isValid <=> r.errors = <<>>

\* C8: validateQuizSubmission returns isValid = TRUE only if userAnswers is
\* an array as long as correctAnswers whose elements are each null or an
\* integer in 0..3.
C8_AnswerShape ==
  (call.op = "validateQuizSubmission" /\ ret.done /\ ~ret.value.threw
     /\ ret.value.isValid) =>
    /\ IsArray(call.userAnswers)
    /\ Len(call.userAnswers.items) = Len(call.correctAnswers)
    /\ \A i \in 1..Len(call.userAnswers.items) :
         LET answer == call.userAnswers.items[i]
         IN  \/ answer.t = "null"
             \/ answer.t = "number" /\ answer.h \in {0, 2, 4, 6}

\* is position i (from 0) of the call answered with the right index
RightAt(i) ==
  /\ i + 1 <= Len(call.userAnswers.items)
  /\ call.userAnswers.items[i + 1].t = "number"
  /\ call.userAnswers.items[i + 1].h = 2 * call.correctAnswers[i + 1]

WrongPositions == {i \in 0..(Len(call.correctAnswers) - 1) : ~RightAt(i)}

\* C9: calculateScore grades position by position: a position is correct
\* iff the user's answer is the number correctAnswers[i]; a null or missing
\* answer is incorrect; mistakes lists exactly the incorrect positions in
\* ascending order, each with the user's answer (null, or undefined when
\* missing) and the correct index; correctAnswers + wrongAnswers =
\* totalQuestions.
C9_GradesByPosition ==
  (call.op = "calculateScore" /\ ret.done) =>
    LET r == ret.value
        m == r.mistakes
    IN  /\ r.totalQuestions = Len(call.correctAnswers)
        /\ r.wrongAnswers = Cardinality(WrongPositions)
        /\ r.correctAnswers + r.wrongAnswers = r.totalQuestions
        /\ Len(m) = Cardinality(WrongPositions)
        /\ {m[k].questionIndex : k \in 1..Len(m)} = WrongPositions
        /\ \A k \in 1..(Len(m) - 1) : m[k].questionIndex < m[k + 1].questionIndex
        /\ \A k \in 1..Len(m) :
             LET i == m[k].questionIndex
             IN  /\ m[k].correctAnswer = call.correctAnswers[i + 1]
                 /\ m[k].userAnswer =
                      IF i + 1 <= Len(call.userAnswers.items)
                        THEN call.userAnswers.items[i + 1] ELSE JSUndefined

\* a null answer and a missing answer are both graded, as mistakes, next to
\* a right answer
C9_Witness ==
  /\ call.op = "calculateScore"
  /\ ret.done
  /\ Len(call.correctAnswers) = 2
  /\ \/ call.userAnswers.items = <<JSNull, JSInt(call.correctAnswers[2])>>
     \/ call.userAnswers.items = <<JSInt(call.correctAnswers[1])>>
  /\ Len(ret.value.mistakes) = 1

\* C10: the score of calculateScore is 100 * correct / total rounded to the
\* nearest integer, halves going up; it is an integer in 0..100, 100 when
\* every answer is right and 0 when every answer is wrong.
C10_ScoreRoundsHalfUp ==
  (call.op = "calculateScore" /\ ret.done) =>
    LET total == Len(call.correctAnswers)
        right == total - Cardinality(WrongPositions)
        score == ret.value.score
    IN  /\ score \in 0..100
        /\ 2 * total * score - total <= 200 * right
        /\ 200 * right < 2 * total * score + total
        /\ right = total => score = 100
        /\ right = 0 => score = 0

\* C15: one invocation of retryWithBackoff calls the operation at most
\* maxRetries times, three times when the argument is left out; it returns
\* at the first attempt that succeeds, with the value of that attempt; a new
\* invocation starts with nothing left over from the one before.
C15_BoundedAttempts ==
  /\ [](retry.pc # "idle" =>
          /\ retry.calls <= retry.maxRetries
          /\ ~retry.given => retry.calls <= 3
          /\ retry.pc = "returned" =>
               /\ retry.calls = Len(retry.errors) + 1
               /\ retry.result \in ApiResults)
  /\ [][retry.pc \in {"returned", "threw"} /\ retry'.pc \notin {"returned", "threw"} =>
          /\ retry'.calls = 1
          /\ retry'.attempt = 0
          /\ retry'.errors = <<>>
          /\ retry'.slept = <<>>
          /\ retry'.lastError = Undefined]_vars

\* three attempts were made without the argument and the third one returned
C15_Witness ==
  /\ retry.pc = "returned"
  /\ ~retry.given
  /\ retry.calls = 3

\* C16: a non-retryable error ends the invocation: it is the last error
\* of the invocation and the one raised; when all maxRetries attempts failed
\* with retryable errors, the error of the last attempt is raised.
C16_ErrorPropagation ==
  retry.pc # "idle" =>
    /\ \A k \in 1..Len(retry.errors) :
         ~IsRetryableError(retry.errors[k]) =>
           /\ k = Len(retry.errors)
           /\ retry.pc = "threw"
           /\ retry.calls = k
           /\ retry.raised = retry.errors[k]
    /\ ( /\ Len(retry.errors) = retry.maxRetries
         /\ retry.maxRetries > 0 ) =>
           /\ retry.pc = "threw"
           /\ retry.raised = retry.errors[retry.maxRetries]

\* a non-retryable error was raised on the second attempt of several
C16_Witness ==
  /\ retry.pc = "threw"
  /\ Len(retry.errors) = 2
  /\ retry.maxRetries > 2
  /\ ~IsRetryableError(retry.errors[2])
  /\ retry.raised = retry.errors[2]

\* C18: the sleep after failed attempt k, counted from 0, lasts
\* min(2000 * 2^k, 30000) ms; there is a sleep only after a retryable failure
\* that is not the last attempt.
C18_BackoffSchedule ==
  retry.pc # "idle" =>
    /\ \A k \in 1..Len(retry.slept) :
         /\ retry.slept[k] = IF 2000 * 2^(k - 1) < 30000 THEN 2000 * 2^(k - 1) ELSE 30000
         /\ IsRetryableError(retry.errors[k])
         /\ k < retry.maxRetries
    /\ Len(retry.slept) =
         IF retry.pc = "threw" /\ retry.errors # <<>>
           THEN Len(retry.errors) - 1 ELSE Len(retry.errors)

\* the fifth sleep, after attempt 4, is cut to 30000 ms, and the sixth and
\* final attempt failed without a sleep
C18_Witness ==
  /\ retry.pc = "threw"
  /\ Len(retry.errors) = 6
  /\ Len(retry.slept) = 5
  /\ retry.slept[5] = 30000
  /\ retry.slept[4] = 16000

\* C12: no two questions a run returns are equal after lower-casing and
\* whitespace normalisation, also when stage 4 rewrote questions, got a
\* batch of the wrong size back, or failed as a whole.
C12_NoDuplicateQuestions ==
  pipe.pc = "returned" =>
    \A i, j \in 1..Len(pipe.verifiedQuestions) :
      i # j => normalizeText(pipe.verifiedQuestions[i].question)
                 # normalizeText(pipe.verifiedQuestions[j].question)

\* a run returned after the fact check of the first batch came back with
\* the wrong size and that of the second rewrote a question into a copy of
\* the first one, which was removed
C12_Witness ==
  /\ pipe.pc = "returned"
  /\ 4 \in pipe.fellBack
  /\ Len(pipe.allCorrectedQuestions) = pipe.questionCount
  /\ Len(pipe.verifiedQuestions) < Len(pipe.allCorrectedQuestions)

\* C13: every record a run returns has exactly 4 options, pairwise
\* distinct, a correctAnswer in 0..3, and its option at correctAnswer is the
\* correctAnswerText it had when it entered stage 5, compared as stage 5
\* compares texts.
C13_AnswerKeyConsistent ==
  pipe.pc = "returned" =>
    \A k \in 1..Len(pipe.verifiedQuestions) :
      LET r == pipe.verifiedQuestions[k]
      IN  /\ r.verified
          /\ Len(r.options) = 4
          /\ \A a, b \in 1..4 : a # b => r.options[a] # r.options[b]
          /\ r.correctAnswer \in 0..3
          /\ normalizeText(r.options[r.correctAnswer + 1])
               = normalizeText(pipe.factCheckedQuestions[k].correctAnswerText)

\* C14: a run that returns, returns a record for every one of the
\* questionCount questions asked for.
C14_AllOrNothing ==
  pipe.pc = "returned" => Len(pipe.verifiedQuestions) = pipe.questionCount

\* C19: at most one gateway call of a run is awaited at a time; a call of
\* stage k is awaited only when the stages before k are left behind and
\* stage k is not; the stages are left behind in the order 1, 2, 3, 4, 5.
C19_StagesInOrder ==
  pipe.pc # "idle" =>
    /\ pipe.inflight <= 1
    /\ pipe.inflight = 1 <=> pipe.pc \in {"call", "single"}
    /\ pipe.pc \in {"call", "single", "wait"} =>
         pipe.finished = 1..(pipe.stage - 1)
    /\ \E k \in 0..5 : pipe.finished = 1..k
    /\ \A k \in 1..4 : pipe.attempts[k + 1] > 0 => k \in pipe.finished

\* the fact check of the second batch is awaited, after the explanations
\* were asked for one by one
C19_Witness ==
  /\ pipe.pc = "call"
  /\ pipe.stage = 4
  /\ pipe.batchIndex = 1
  /\ pipe.inflight = 1
  /\ 3 \in pipe.fellBack

\* C20: a stage whose post-condition is violated is run again, up to 3
\* attempts with a wait of 2000 ms between them: the run fails, or goes on
\* without the stage's result, only when the third attempt of the stage has
\* failed.
C20_StageRetry ==
  pipe.pc # "idle" =>
    /\ \A k \in 1..Len(pipe.waited) : pipe.waited[k] = 2000
    /\ \A k \in 1..5 : pipe.attempts[k] <= 3
    /\ pipe.pc = "failed" => pipe.attempts[pipe.failedStage] = 3
    /\ \A k \in pipe.fellBack : pipe.attempts[k] = 3

\* C21: when a record that reaches stage 5 has no option equal to its
\* correctAnswerText after normalisation, the generation fails: no record is
\* returned, the client is sent a failure without questions, and no session
\* is stored.
C21_Stage5HardFailure ==
  LET unmatched ==
        \E k \in 1..Len(pipe.factCheckedQuestions) :
          LET q == pipe.factCheckedQuestions[k]
          IN  \A o \in 1..Len(q.options) :
                normalizeText(q.options[o]) # normalizeText(q.correctAnswerText)
  IN  (pipe.pc # "idle" /\ unmatched) =>
        /\ pipe.pc \in {"failed", "refused"}
        /\ pipe.failedStage = 5
        /\ pipe.verifiedQuestions = <<>>
        /\ db = <<>>
        /\ issued = {}
        /\ pipe.pc = "refused" =>
             /\ ret.response.status = 500
             /\ "questions" \notin DOMAIN ret.response.body

\* the second of two questions went through stage 4 with an answer text
\* that is none of its options, and the request was answered with a failure
C21_Witness ==
  /\ pipe.pc = "refused"
  /\ pipe.failedStage = 5
  /\ Len(pipe.factCheckedQuestions) = 2
  /\ pipe.factCheckedQuestions[2].correctAnswerText = <<"E">>
  /\ Verifies(pipe.factCheckedQuestions[1])
  /\ ret.response.status = 500
  /\ db = <<>>

\* C22: stage 3 never ends the run: once it is left behind, each of the
\* questionCount questions stands at its position with an explanation that
\* is not empty: the one the batch gave for it, or, when the batch call
\* failed, the one asked for it alone or the default text that names its
\* correctAnswerText.
C22_ExplanationsNeverFail ==
  pipe.pc # "idle" =>
    /\ pipe.failedStage # 3
    /\ 3 \in pipe.finished =>
         /\ Len(pipe.questionsWithAnswers) = pipe.questionCount
         /\ \A k \in 1..pipe.questionCount :
              LET q == pipe.questionsWithAnswers[k]
                  default == <<"The correct answer is \"">>
                               \o pipe.questionsWithOptions[k].correctAnswerText \o <<"\".">>
              IN  /\ q.question = pipe.questions[k]
                  /\ q.explanation # <<>>
                  /\ q.explanation \in
                       IF 3 \in pipe.fellBack
                         THEN {<<"y">> \o NatToString(k), default}
                         ELSE {<<"x">> \o NatToString(k), default}

\* the batch call failed; the call for the first question failed as well
\* and it got the default text, the second question its own explanation
C22_Witness ==
  /\ pipe.pc # "idle"
  /\ 3 \in pipe.finished
  /\ 3 \in pipe.fellBack
  /\ pipe.questionCount >= 2
  /\ pipe.questionsWithAnswers[1].explanation = DefaultExplanation(pipe.questionsWithOptions[1])
  /\ pipe.questionsWithAnswers[2].explanation = <<"y", "2">>

C24_Stage1PostCondition ==
  (call.op = "generateQuestionsOnly" /\ ret.done) =>
    LET items == call.outcome.items
        wellFormed ==
          /\ ~call.outcome.threw
          /\ call.outcome.array
          /\ Len(items) = call.questionCount
          /\ \A i, j \in 1..Len(items) :
               i # j => normalizeText(items[i]) # normalizeText(items[j])
    IN  ~ret.value.threw <=> wellFormed

\* C25: at every instant the sweep selects a session for deletion exactly
\* when a read at that instant treats it as expired.
C25_ExpiryPredicatesAgree ==
  (call.op = "expired" /\ ret.done) => (ret.value.sweep <=> ret.value.read)

\* the submit handlers in flight for a session that stand at pc
InFlight(bag, sessionId, pc) ==
  LET these == {r \in BagToSet(bag) : r.sessionId = sessionId /\ r.pc = pc}
  IN  BagCardinality([r \in these |-> bag[r]])

\* C26: a handler that reads a session whose expiresAt has passed neither
\* validates nor grades: it removes the session and answers "not found";
\* a submission answered "not found" was not validated and its session is
\* not in the store, and a session that has left the store stays out.
C26_LazyExpiry ==
  /\ [](/\ \A req \in BagToSet(sub) :
             req.pc = "expired" => ~req.validated /\ req.results = <<>>
        /\ (ret.done /\ ret.op = "submit" /\ ret.response = NotFound) =>
             /\ ~ret.validated
             /\ ret.sessionId \notin DOMAIN db)
  /\ [][\A b \in issued :
          LET id == b.sessionId
          IN  /\ id \notin DOMAIN db => id \notin DOMAIN db'
              /\ ( /\ id \in DOMAIN db
                   /\ now > db[id].expiresAt
                   /\ InFlight(sub', id, "get") < InFlight(sub, id, "get") ) =>
                     /\ InFlight(sub', id, "expired") = InFlight(sub, id, "expired") + 1
                     /\ InFlight(sub', id, "delete") = InFlight(sub, id, "delete")
                     /\ ret' = NoRet]_vars

\* a submission found its session expired and was answered "not found"
\* after removing it, before the sweep that had selected it came to delete
C26_Witness ==
  /\ ret.done /\ ret.op = "submit"
  /\ ret.response = NotFound
  /\ ~ret.late
  /\ ret.sessionId \in {b.sessionId : b \in issued}
  /\ ret.sessionId \notin submitted
  /\ sweep.pc = "deleting"
  /\ ret.sessionId \in sweep.docs

\* C27: of the submit requests for one session, however their reads and
\* deletes interleave, at most one is graded and answered with its results:
\* no handler completes its delete and sends results for a session whose
\* results were already sent.
C27_ConcurrentSingleUse ==
  [][\A b \in issued :
       InFlight(sub', b.sessionId, "delete") < InFlight(sub, b.sessionId, "delete")
         => b.sessionId \notin submitted]_vars

\* the answer sent when validateQuizSubmission reports the submission invalid
Rejection(r) ==
  /\ r.done /\ r.op = "submit"
  /\ r.validated
  /\ r.response.status = 400

\* C28: the step that rejects a submission as invalid computes no score
\* and leaves the store and the set of submitted sessions as they were;
\* after it the session is stored exactly as it was issued, so it can still
\* be read and graded.
C28_RejectionChangesNothing ==
  /\ [](Rejection(ret) =>
          /\ ret.response.body.errors # <<>>
          /\ "results" \notin DOMAIN ret.response.body
          /\ ret.sessionId \in DOMAIN db
          /\ \A b \in issued :
               b.sessionId = ret.sessionId =>
                 /\ sanitizeQuestionsForClient(db[ret.sessionId].questions) = b.questions
                 /\ db[ret.sessionId].sessionHash = b.sessionHash
                 /\ db[ret.sessionId].startTime = b.startTime
                 /\ db[ret.sessionId].timeLimit = b.timeLimit)
  /\ [][\A b \in issued :
          ( /\ InFlight(sub', b.sessionId, "get") < InFlight(sub, b.sessionId, "get")
            /\ Rejection(ret') ) =>
              /\ db' = db
              /\ submitted' = submitted
              /\ InFlight(sub', b.sessionId, "delete") = InFlight(sub, b.sessionId, "delete")]_vars

\* a submission was rejected while the window is open and another request
\* for the same session is about to read it
C28_Witness ==
  /\ Rejection(ret)
  /\ ret.sessionId \in DOMAIN db
  /\ ret.sessionId \notin submitted
  /\ ~ExpiredOnRead(db[ret.sessionId], now)
  /\ now <= db[ret.sessionId].startTime + (db[ret.sessionId].timeLimit + GRACE_SECONDS) * 1000
  /\ InFlight(sub, ret.sessionId, "get") > 0

\* the last instant at which validateQuizSubmission accepts a submission
WindowEnd(b) == b.startTime + (b.timeLimit + GRACE_SECONDS) * 1000

\* C29: up to startTime + (timeLimit + 5) seconds of server time a session
\* that was handed out and not yet submitted is in the store, whatever reads
\* and sweeps have run, and no submission for it is answered "not found".
C29_RetrievableInWindow ==
  \A b \in issued :
    (now <= WindowEnd(b) /\ b.sessionId \notin submitted) =>
      /\ b.sessionId \in DOMAIN db
      /\ ~ExpiredOnRead(db[b.sessionId], now)
      /\ ~ExpiredForSweep(db[b.sessionId], now)
      /\ \A req \in BagToSet(sub) : req.sessionId = b.sessionId => req.pc # "expired"
      /\ ~(/\ ret.done /\ ret.op = "submit"
           /\ ret.sessionId = b.sessionId
           /\ ret.response = NotFound)

\* minutes into the window of a session the session is stored, the sweep
\* has nothing selected, and a submission for it has been read and graded
C29_Witness ==
  \E b \in issued :
    /\ now > b.startTime + 300000
    /\ now <= WindowEnd(b)
    /\ b.sessionId \notin submitted
    /\ b.sessionId \in DOMAIN db
    /\ sweep.pc = "idle"
    /\ InFlight(sub, b.sessionId, "delete") > 0

\* the gateway calls made so far in the stage the run stands in
CallsInStage == pipe.calls + (IF pipe.pc = "call" THEN retry.calls ELSE 0)

\* C30: a run for N questions makes at most 9 gateway calls in stage 1,
\* at most 9 in stage 2, at most 3 + 3N in stage 3 and at most
\* 3 * ceil(N / 5) in stage 4, and, every gateway call returning or failing,
\* a run that has started ends in success or in failure.
C30_BoundedGatewayCalls ==
  /\ [](pipe.pc # "idle" =>
          /\ pipe.stage = 1 => CallsInStage <= 9
          /\ pipe.stage = 2 => CallsInStage <= 9
          /\ pipe.stage = 3 => CallsInStage <= 3 + 3 * pipe.questionCount
          /\ pipe.stage = 4 => CallsInStage <= 3 * ((pipe.questionCount + 4) \div 5))
  /\ (pipe.pc \in {"call", "wait", "verify"}) ~> (pipe.pc \in {"succeeded", "failed"})

\* in a run for more than one batch of questions the batch call of stage 3
\* and every single call after it have used up their retries: stage 3 has
\* made 3 + 3N gateway calls
C30_Witness ==
  /\ pipe.pc = "call"
  /\ pipe.stage = 3
  /\ pipe.questionCount > BATCH_SIZE
  /\ pipe.index = pipe.questionCount
  /\ retry.pc = "threw"
  /\ CallsInStage = 3 + 3 * pipe.questionCount

====
